---- MODULE Spec2Model ----
(***************************************************************************)
(* Model of python/vyos/ifconfig/dhcp.py: class DHCP, the per-interface    *)
(* DHCP / DHCPv6 client supervisor (config rendering, start, stop).        *)
(*                                                                         *)
(* Strings whose content matters (host names, option values, paths) are    *)
(* sequences of one-character strings, so that rstrip and concatenation    *)
(* are computed and not assumed.  A rendered config file is the sequence   *)
(* of its template lines, each line the sequence of its fixed text and     *)
(* the substituted values.                                                 *)
(***************************************************************************)
EXTENDS Naturals, Sequences, FiniteSets

VARIABLES
    options4,      \* self._dhcp[4]['options']
    options6,      \* self._dhcp[6]['options']
    conf4,         \* file self._dhcp[4]['conf']
    pid4,          \* file self._dhcp[4]['pid']: 0 = no file, else the pid in it
    lease4,        \* file self._dhcp[4]['lease'] exists
    conf6,         \* file self._dhcp[6]['conf']
    pid6,          \* file self._dhcp[6]['pid']
    lease6,        \* file self._dhcp[6]['lease'] exists
    accept_ra,     \* content of /proc/sys/net/ipv6/conf/<ifname>/accept_ra
    etc_hostname,  \* content of /etc/hostname
    dhclient4,     \* the dhclient -4 processes of the interface, by pid
    dhclient6,     \* the dhclient -6 processes of the interface, by pid
    last,          \* the last call made on the object: its result and side effects
    version        \* the IP version the caller runs on this interface: 4 or 6

vars == <<options4, options6, conf4, pid4, lease4, conf6, pid6, lease6,
          accept_ra, etc_hostname, dhclient4, dhclient6, last, version>>

vars4 == <<options4, conf4, pid4, lease4, dhclient4>>
vars6 == <<options6, conf6, pid6, lease6, dhclient6, accept_ra>>

----------------------------------------------------------------------------
(* Bounds *)

\* pids available to the client processes of one IP version
MaxProcs == 2

Pids == 1..MaxProcs

\* client processes of one IP version alive at a time when the caller runs
\* both versions together
MaxJointProcs == 1

\* characters an interface name has after eth0, at most
MaxTail == 3

----------------------------------------------------------------------------
(* Strings *)

NL == "\n"

\* faulty variant: only the last character is dropped, when it is a newline
rstrip_once(s) ==
    IF s # <<>> /\ s[Len(s)] = NL THEN SubSeq(s, 1, Len(s) - 1) ELSE s

\* str.rstrip('\n'): drop every trailing newline, nothing else
RECURSIVE rstrip(_)
rstrip(s) ==
    IF s # <<>> /\ s[Len(s)] = NL THEN rstrip(SubSeq(s, 1, Len(s) - 1)) ELSE s

ifname == <<"e", "t", "h", "0">>

client_base == <<"/var/lib/dhcp/dhclient_">>

\* faulty variant: the v6 files are named by a .v6 part put before the v4
\* extension
PathFor_Dotted(name, v, kind) ==
    client_base \o name
    \o (IF v = 6 THEN <<".", "v", "6">> ELSE <<>>)
    \o CASE kind = "conf"  -> <<".", "c", "o", "n", "f">>
          [] kind = "pid"   -> <<".", "p", "i", "d">>
          [] kind = "lease" -> <<".", "l", "e", "a", "s", "e", "s">>

\* __init__(ifname): self._dhcp[v][kind] for kind in conf, pid, lease
PathFor(name, v, kind) ==
    client_base \o name \o
    CASE v = 4 /\ kind = "conf"  -> <<".", "c", "o", "n", "f">>
      [] v = 4 /\ kind = "pid"   -> <<".", "p", "i", "d">>
      [] v = 4 /\ kind = "lease" -> <<".", "l", "e", "a", "s", "e", "s">>
      [] v = 6 /\ kind = "conf"  -> <<".", "v", "6", "c", "o", "n", "f">>
      [] v = 6 /\ kind = "pid"   -> <<".", "v", "6", "p", "i", "d">>
      [] v = 6 /\ kind = "lease" -> <<".", "v", "6", "l", "e", "a", "s", "e", "s">>

\* faulty variant: both versions keep their leases in the v4 lease file
Path_SharedLease(v, kind) ==
    IF kind = "lease" THEN PathFor(ifname, 4, "lease") ELSE PathFor(ifname, v, kind)

\* self._dhcp[v][kind] of the object under study
Path(v, kind) == PathFor(ifname, v, kind)

\* self._dhcp as __init__(name) builds it: the names of the files
_dhcp(name) ==
    [v \in {4, 6} |->
        [ifname |-> name,
         conf   |-> PathFor(name, v, "conf"),
         pid    |-> PathFor(name, v, "pid"),
         lease  |-> PathFor(name, v, "lease")]]

\* the characters interface names are made of after eth0
TailChars == {".", "v", "6"}

RECURSIVE Tails(_)
Tails(n) ==
    IF n = 0 THEN { <<>> }
    ELSE Tails(n - 1) \cup { Append(t, c) : t \in Tails(n - 1), c \in TailChars }

\* the interface names objects are constructed for: eth0, eth0.6, eth0.v6 ...
IfNames == { ifname \o t : t \in Tails(MaxTail) }

accept_ra_path == <<"/proc/sys/net/ipv6/conf/">> \o ifname \o <<"/accept_ra">>

hostname_path == <<"/etc/hostname">>

----------------------------------------------------------------------------
(* Files *)

NoFile == [exists |-> FALSE, text |-> <<>>]

File(text) == [exists |-> TRUE, text |-> text]

\* open(path, 'w') succeeded and f.write() failed: the file is left truncated
Truncated == File(<<>>)

----------------------------------------------------------------------------
(* Option bags *)

\* the option values callers store (the empty string included)
HostnameOpts == { <<>>, <<"h", "1">> }
ClientIds == { <<>>, <<"a", "b", "c">> }
VendorClassIds == { <<>>, <<"v", "c">> }

\* contents of /etc/hostname
SysHostnames == { <<"g", "w", NL>>, <<"r", NL, "1", NL, NL>>, <<NL>> }

\* the v4 option bags callers store: every combination of client_id and
\* vendor_class_id set or not, the hostname set when the vendor class id is
Options4 ==
    { o \in [intf : {ifname}, hostname : HostnameOpts, client_id : ClientIds,
             vendor_class_id : VendorClassIds] :
        (o.hostname = <<>>) = (o.vendor_class_id = <<>>) }

Options6 ==
    [intf : {ifname}, dhcpv6_prm_only : BOOLEAN, dhcpv6_temporary : BOOLEAN]

\* self._dhcp[4]['options'] as __init__ builds it
DefaultOptions4 ==
    [intf |-> ifname, hostname |-> <<>>, client_id |-> <<>>, vendor_class_id |-> <<>>]

\* self._dhcp[6]['options'] as __init__ builds it
DefaultOptions6 ==
    [intf |-> ifname, dhcpv6_prm_only |-> FALSE, dhcpv6_temporary |-> FALSE]

----------------------------------------------------------------------------
(* Templates *)

\* faulty variant: the line is rendered whatever the value
Truthy_Always(s) == TRUE

\* jinja2 {% if x -%}: the empty string is false
Truthy(s) == s # <<>>

\* jinja2.Template(template_v4).render(dhcp)
template_v4(dhcp) ==
    << <<"# generated by ifconfig.py">>,
       <<"option rfc3442-classless-static-routes code 121 = array of unsigned integer 8;">>,
       <<"timeout 60;">>,
       <<"retry 300;">>,
       <<"interface", dhcp.intf>>,
       <<"send host-name", dhcp.hostname>> >>
    \o (IF Truthy(dhcp.client_id)
        THEN << <<"send dhcp-client-identifier", dhcp.client_id>> >> ELSE <<>>)
    \o (IF Truthy(dhcp.vendor_class_id)
        THEN << <<"send vendor-class-identifier", dhcp.vendor_class_id>> >> ELSE <<>>)
    \o << <<"request subnet-mask, broadcast-address, routers, domain-name-servers, rfc3442-classless-static-routes, domain-name, interface-mtu;">>,
          <<"require subnet-mask;">>,
          <<"}">> >>

\* jinja2.Template(template_v6).render(dhcpv6)
template_v6(dhcpv6) ==
    << <<"# generated by ifconfig.py">>,
       <<"interface", dhcpv6.intf>>,
       <<"request routers, domain-name-servers, domain-name;">>,
       <<"}">> >>

----------------------------------------------------------------------------
(* Command lines, as token sequences *)

\* faulty variant: dhclient is run directly, not under start-stop-daemon
StartCmd4_Direct ==
    <<"/sbin/dhclient",
      "-4", "-nw", "-cf", Path(4, "conf"), "-pf", Path(4, "pid"),
      "-lf", Path(4, "lease"), ifname>>

\* _set_dhcp: start-stop-daemon --start ... -- -4 -nw -cf .. -pf .. -lf .. ifname
StartCmd4 ==
    <<"start-stop-daemon", "--start", "--oknodo", "--quiet",
      "--pidfile", Path(4, "pid"), "--exec", "/sbin/dhclient", "--",
      "-4", "-nw", "-cf", Path(4, "conf"), "-pf", Path(4, "pid"),
      "-lf", Path(4, "lease"), ifname>>

\* faulty variant: the release is asked for without the files of the client
ReleaseCmd4_NoPaths == <<"/sbin/dhclient", "-r", ifname>>

\* _del_dhcp: /sbin/dhclient -cf .. -pf .. -lf .. -r ifname
ReleaseCmd4 ==
    <<"/sbin/dhclient", "-cf", Path(4, "conf"), "-pf", Path(4, "pid"),
      "-lf", Path(4, "lease"), "-r", ifname>>

\* faulty variant: the two optional arguments are exchanged
StartCmd6_Swapped(dhcpv6) ==
    <<"start-stop-daemon", "--start", "--oknodo", "--quiet",
      "--pidfile", Path(6, "pid"), "--exec", "/sbin/dhclient", "--",
      "-6", "-nw", "-cf", Path(6, "conf"), "-pf", Path(6, "pid"),
      "-lf", Path(6, "lease")>>
    \o (IF dhcpv6.dhcpv6_prm_only THEN <<"-T">> ELSE <<>>)
    \o (IF dhcpv6.dhcpv6_temporary THEN <<"-S">> ELSE <<>>)
    \o <<ifname>>

\* _set_dhcpv6: start-stop-daemon --start ... -- -6 -nw -cf .. -pf .. -lf .. [-S] [-T] ifname
StartCmd6(dhcpv6) ==
    <<"start-stop-daemon", "--start", "--oknodo", "--quiet",
      "--pidfile", Path(6, "pid"), "--exec", "/sbin/dhclient", "--",
      "-6", "-nw", "-cf", Path(6, "conf"), "-pf", Path(6, "pid"),
      "-lf", Path(6, "lease")>>
    \o (IF dhcpv6.dhcpv6_prm_only THEN <<"-S">> ELSE <<>>)
    \o (IF dhcpv6.dhcpv6_temporary THEN <<"-T">> ELSE <<>>)
    \o <<ifname>>

\* _del_dhcpv6: start-stop-daemon --start --oknodo --quiet --pidfile ..
StopCmd6 ==
    <<"start-stop-daemon", "--start", "--oknodo", "--quiet",
      "--pidfile", Path(6, "pid")>>

HasToken(cmd, t) == \E i \in 1..Len(cmd) : cmd[i] = t

----------------------------------------------------------------------------
(* The external programs the command lines run *)

Free(procs) == { p \in Pids : procs[p] = "none" }

Live(procs) == { p \in Pids : procs[p] # "none" }

\* the process the pid file names is alive
PidfileRunning(procs, pidfile) == pidfile \in Pids /\ procs[pidfile] # "none"

Launch(procs) ==
    LET p == CHOOSE q \in Free(procs) : \A r \in Free(procs) : q <= r
    IN  [procs EXCEPT ![p] = "starting"]

\* start-stop-daemon in the mode its command line gives:
\*   --start: nothing to do when the pid file names a live process (--oknodo
\*            makes that exit 0), else run the --exec program, if any;
\*   --stop:  terminate the process the pid file names.
StartStopDaemon(cmd, procs, pidfile) ==
    IF HasToken(cmd, "--stop")
    THEN IF PidfileRunning(procs, pidfile)
         THEN [procs EXCEPT ![pidfile] = "none"] ELSE procs
    ELSE IF PidfileRunning(procs, pidfile) \/ ~HasToken(cmd, "--exec")
         THEN procs
         ELSE Launch(procs)

\* dhclient -r: terminate the client the pid file names and release its lease
DhclientRelease(procs, pidfile) ==
    IF PidfileRunning(procs, pidfile) THEN [procs EXCEPT ![pidfile] = "none"] ELSE procs

\* The client processes after the command line has run: start-stop-daemon,
\* dhclient -r, or dhclient itself (-nw: it goes to the background at once).
Run(cmd, procs, pidfile) ==
    IF cmd[1] = "start-stop-daemon" THEN StartStopDaemon(cmd, procs, pidfile)
    ELSE IF HasToken(cmd, "-r") THEN DhclientRelease(procs, pidfile)
    ELSE Launch(procs)

\* the command line starts a new client process
Launches(cmd, procs, pidfile) ==
    IF cmd[1] = "start-stop-daemon"
    THEN /\ HasToken(cmd, "--start") /\ HasToken(cmd, "--exec")
         /\ ~PidfileRunning(procs, pidfile)
    ELSE ~HasToken(cmd, "-r")

\* a new client process needs a free pid
CanRun(cmd, procs, pidfile) == Launches(cmd, procs, pidfile) => Free(procs) # {}

----------------------------------------------------------------------------
(* Control's primitives *)

\* Control._cmd: run the command line; an invocation that errors raises
_cmd(fault) == IF fault = "cmd" THEN "ProcessError" ELSE "ok"

\* Control._write_sysfs(filename, value): the new content of the control file
_write_sysfs(value) == value

----------------------------------------------------------------------------
(* The calls *)

\* The record of a call: what it was, how it ended, the side effects it had in
\* order, and (prev) the call made before it and how that one ended.
Call(op, result, effects) ==
    [op |-> op, result |-> result, effects |-> effects,
     prev |-> <<last.op, last.result>>]

Init ==
    /\ options4 = DefaultOptions4
    /\ options6 = DefaultOptions6
    /\ conf4 = NoFile /\ pid4 = 0 /\ lease4 = FALSE
    /\ conf6 = NoFile /\ pid6 = 0 /\ lease6 = FALSE
    /\ accept_ra = 1
    /\ etc_hostname \in SysHostnames
    /\ dhclient4 = [p \in Pids |-> "none"]
    /\ dhclient6 = [p \in Pids |-> "none"]
    /\ last = [op |-> "__init__", result |-> "ok", effects |-> <<>>,
               prev |-> <<"none", "none">>]
    /\ version \in {4, 6}

\* faulty variant: the bag stored before is kept
set_dhcp_options_Ignored(options) ==
    /\ version = 4
    /\ options4' = options4
    /\ last' = Call("set_dhcp_options", "ok", <<>>)
    /\ UNCHANGED <<conf4, pid4, lease4, dhclient4, vars6, etc_hostname, version>>

set_dhcp_options(options) ==
    /\ version = 4
    /\ options4' = options
    /\ last' = Call("set_dhcp_options", "ok", <<>>)
    /\ UNCHANGED <<conf4, pid4, lease4, dhclient4, vars6, etc_hostname, version>>

set_dhcpv6_options(options) ==
    /\ version = 6
    /\ options6' = options
    /\ last' = Call("set_dhcpv6_options", "ok", <<>>)
    /\ UNCHANGED <<conf6, pid6, lease6, dhclient6, accept_ra, vars4, etc_hostname, version>>

\* faulty variant: the system hostname is read at every start
ReadsHostname_Always(dhcp) == TRUE

\* if not dhcp['hostname']: the empty string is false
ReadsHostname(dhcp) == dhcp.hostname = <<>>

\* the hostname option _set_dhcp renders with
Hostname(dhcp, sysname) ==
    IF ReadsHostname(dhcp) THEN rstrip(sysname) ELSE dhcp.hostname

_set_dhcp(fault) ==
    LET reads == ReadsHostname(options4)
        rd    == IF reads THEN << <<"read", hostname_path>> >> ELSE <<>>
        dhcp  == [options4 EXCEPT !.hostname = Hostname(options4, etc_hostname)]
        text  == template_v4(dhcp)
        wr    == << <<"write", Path(4, "conf")>> >>
        run   == << <<"cmd", StartCmd4>> >>
    IN
    /\ version = 4
    /\ fault \in {"none", "read", "open", "write", "cmd"}
    /\ fault = "read" => reads
    /\ CASE fault = "read" ->
              /\ last' = Call("_set_dhcp", "IOError", <<>>)
              /\ UNCHANGED <<options4, conf4, dhclient4>>
         [] fault = "open" ->
              /\ options4' = dhcp
              /\ last' = Call("_set_dhcp", "IOError", rd)
              /\ UNCHANGED <<conf4, dhclient4>>
         [] fault = "write" ->
              /\ options4' = dhcp
              /\ conf4' = Truncated
              /\ last' = Call("_set_dhcp", "IOError", rd \o wr)
              /\ UNCHANGED dhclient4
         [] fault = "cmd" ->
              /\ options4' = dhcp
              /\ conf4' = File(text)
              /\ last' = Call("_set_dhcp", _cmd(fault), rd \o wr \o run)
              /\ UNCHANGED dhclient4
         [] OTHER ->
              /\ CanRun(StartCmd4, dhclient4, pid4)
              /\ options4' = dhcp
              /\ conf4' = File(text)
              /\ dhclient4' = Run(StartCmd4, dhclient4, pid4)
              /\ last' = Call("_set_dhcp", _cmd(fault), rd \o wr \o run)
    /\ UNCHANGED <<pid4, lease4, vars6, etc_hostname, version>>

\* faulty variant: the pid file is not looked for
PidfileExists_Assumed(pidfile) == TRUE

\* os.path.isfile(self._dhcp[v]['pid'])
PidfileExists(pidfile) == pidfile # 0

\* faulty variant: the lease file is forgotten
cleanup4_NoLease == <<"conf", "pid">>

\* _del_dhcp: for name in ('conf', 'pid', 'lease')
cleanup4 == <<"conf", "pid", "lease">>

\* _del_dhcpv6: for name in ('conf', 'pid', 'lease')
cleanup6 == <<"conf", "pid", "lease">>

\* faulty variant: the file is taken to be there
IsFile_Unchecked(present, name) == TRUE

\* os.path.isfile(self._dhcp[v][name])
IsFile(present, name) == present[name]

\* The cleanup loop over names: os.remove of each file os.path.isfile finds,
\* in order.  os.remove of a file that is not there raises, which ends the
\* loop and the call.
Cleanup(names, present) ==
    LET F[i \in 0..Len(names)] ==
            IF i = 0 THEN [removed |-> <<>>, result |-> "ok"]
            ELSE IF F[i - 1].result # "ok" \/ ~IsFile(present, names[i]) THEN F[i - 1]
            ELSE IF present[names[i]]
                 THEN [F[i - 1] EXCEPT !.removed = Append(@, names[i])]
                 ELSE [F[i - 1] EXCEPT !.result = "OSError"]
    IN  F[Len(names)]

\* the cleanup loop has removed the file
Cleaned(names, present, name) ==
    \E i \in 1..Len(Cleanup(names, present).removed) :
        Cleanup(names, present).removed[i] = name

\* the os.remove calls the cleanup loop has made, in order
Removals(v, names, present) ==
    [i \in 1..Len(Cleanup(names, present).removed) |->
        <<"remove", Path(v, Cleanup(names, present).removed[i])>>]

_del_dhcp(fault) ==
    /\ version = 4
    /\ fault \in {"none", "cmd"}
    /\ IF ~PidfileExists(pid4)
       THEN /\ fault = "none"
            /\ last' = Call("_del_dhcp", "ok", <<>>)
            /\ UNCHANGED <<conf4, pid4, lease4, dhclient4>>
       ELSE IF _cmd(fault) # "ok"
       THEN /\ last' = Call("_del_dhcp", _cmd(fault), << <<"cmd", ReleaseCmd4>> >>)
            /\ UNCHANGED <<conf4, pid4, lease4, dhclient4>>
       ELSE LET present == [conf |-> conf4.exists, pid |-> pid4 # 0, lease |-> lease4]
            IN
            /\ dhclient4' = Run(ReleaseCmd4, dhclient4, pid4)
            /\ conf4' = IF Cleaned(cleanup4, present, "conf") THEN NoFile ELSE conf4
            /\ pid4' = IF Cleaned(cleanup4, present, "pid") THEN 0 ELSE pid4
            /\ lease4' = IF Cleaned(cleanup4, present, "lease") THEN FALSE ELSE lease4
            /\ last' = Call("_del_dhcp", Cleanup(cleanup4, present).result,
                            << <<"cmd", ReleaseCmd4>> >>
                            \o Removals(4, cleanup4, present))
    /\ UNCHANGED <<options4, vars6, etc_hostname, version>>

\* faulty variant: the check is left to the interface script
MutuallyExclusive_Unchecked(dhcpv6) == FALSE

\* the check _set_dhcpv6 makes before it renders
MutuallyExclusive(dhcpv6) == dhcpv6.dhcpv6_prm_only /\ dhcpv6.dhcpv6_temporary

\* faulty variant: accept_ra is written once the client has been launched
StartSteps6_RaLast(wr, ra, run) == wr \o run \o ra

\* the steps of _set_dhcpv6 in the order of the code: the config write, the
\* accept_ra write, the launch
StartSteps6(wr, ra, run) == wr \o ra \o run

_set_dhcpv6(fault) ==
    LET text == template_v6(options6)
        wr   == << <<"write", Path(6, "conf")>> >>
        ra   == << <<"sysfs", accept_ra_path, 0>> >>
        run  == << <<"cmd", StartCmd6(options6)>> >>
    IN
    /\ version = 6
    /\ fault \in {"none", "open", "write", "cmd"}
    /\ IF MutuallyExclusive(options6)
       THEN /\ fault = "none"
            /\ last' = Call("_set_dhcpv6", "Exception", <<>>)
            /\ UNCHANGED <<conf6, accept_ra, dhclient6>>
       ELSE CASE fault = "open" ->
                   /\ last' = Call("_set_dhcpv6", "IOError", <<>>)
                   /\ UNCHANGED <<conf6, accept_ra, dhclient6>>
              [] fault = "write" ->
                   /\ conf6' = Truncated
                   /\ last' = Call("_set_dhcpv6", "IOError", wr)
                   /\ UNCHANGED <<accept_ra, dhclient6>>
              [] fault = "cmd" ->
                   /\ conf6' = File(text)
                   /\ accept_ra' = _write_sysfs(0)
                   /\ last' = Call("_set_dhcpv6", _cmd(fault), StartSteps6(wr, ra, run))
                   /\ UNCHANGED dhclient6
              [] OTHER ->
                   /\ CanRun(StartCmd6(options6), dhclient6, pid6)
                   /\ conf6' = File(text)
                   /\ accept_ra' = _write_sysfs(0)
                   /\ dhclient6' = Run(StartCmd6(options6), dhclient6, pid6)
                   /\ last' = Call("_set_dhcpv6", _cmd(fault), StartSteps6(wr, ra, run))
    /\ UNCHANGED <<options6, pid6, lease6, vars4, etc_hostname, version>>

\* faulty variant: accept_ra is left as _set_dhcpv6 set it
AcceptRaAfterStop_Kept(ra) == ra

\* _del_dhcpv6: self._write_sysfs(self._dhcp[6]['accept_ra'], 1)
AcceptRaAfterStop(ra) == _write_sysfs(1)

_del_dhcpv6(fault) ==
    /\ version = 6
    /\ fault \in {"none", "cmd"}
    /\ IF ~PidfileExists(pid6)
       THEN /\ fault = "none"
            /\ last' = Call("_del_dhcpv6", "ok", <<>>)
            /\ UNCHANGED <<conf6, pid6, lease6, dhclient6, accept_ra>>
       ELSE IF _cmd(fault) # "ok"
       THEN /\ last' = Call("_del_dhcpv6", _cmd(fault), << <<"cmd", StopCmd6>> >>)
            /\ UNCHANGED <<conf6, pid6, lease6, dhclient6, accept_ra>>
       ELSE LET present == [conf |-> conf6.exists, pid |-> pid6 # 0, lease |-> lease6]
            IN
            /\ dhclient6' = Run(StopCmd6, dhclient6, pid6)
            /\ accept_ra' = AcceptRaAfterStop(accept_ra)
            /\ conf6' = IF Cleaned(cleanup6, present, "conf") THEN NoFile ELSE conf6
            /\ pid6' = IF Cleaned(cleanup6, present, "pid") THEN 0 ELSE pid6
            /\ lease6' = IF Cleaned(cleanup6, present, "lease") THEN FALSE ELSE lease6
            /\ last' = Call("_del_dhcpv6", Cleanup(cleanup6, present).result,
                            << <<"cmd", StopCmd6>>,
                               <<"sysfs", accept_ra_path, AcceptRaAfterStop(accept_ra)>> >>
                            \o Removals(6, cleanup6, present))
    /\ UNCHANGED <<options6, vars4, etc_hostname, version>>

----------------------------------------------------------------------------
(* The environment: the detached client processes and the system *)

\* dhclient -nw -pf: the client writes its pid file once it has gone to the
\* background, after the launching command has returned
WritePid4(p) ==
    /\ version = 4
    /\ dhclient4[p] = "starting"
    /\ dhclient4' = [dhclient4 EXCEPT ![p] = "running"]
    /\ pid4' = p
    /\ UNCHANGED <<options4, conf4, lease4, vars6, etc_hostname, last, version>>

WritePid6(p) ==
    /\ version = 6
    /\ dhclient6[p] = "starting"
    /\ dhclient6' = [dhclient6 EXCEPT ![p] = "running"]
    /\ pid6' = p
    /\ UNCHANGED <<options6, conf6, lease6, accept_ra, vars4, etc_hostname, last, version>>

\* dhclient -lf: a running client records its leases
WriteLease4 ==
    /\ version = 4
    /\ Live(dhclient4) # {}
    /\ ~lease4
    /\ lease4' = TRUE
    /\ UNCHANGED <<options4, conf4, pid4, dhclient4, vars6, etc_hostname, last, version>>

WriteLease6 ==
    /\ version = 6
    /\ Live(dhclient6) # {}
    /\ ~lease6
    /\ lease6' = TRUE
    /\ UNCHANGED <<options6, conf6, pid6, dhclient6, accept_ra, vars4, etc_hostname, last, version>>

\* the administrator renames the system
SetSystemHostname(h) ==
    /\ version = 4
    /\ h # etc_hostname
    /\ etc_hostname' = h
    /\ UNCHANGED <<vars4, vars6, last, version>>

----------------------------------------------------------------------------
(* Specifications *)

Faults == {"none", "read", "open", "write", "cmd"}

Next4 ==
    \/ \E o \in Options4 : set_dhcp_options(o)
    \/ \E f \in Faults : _set_dhcp(f)
    \/ \E f \in Faults : _del_dhcp(f)
    \/ \E p \in Pids : WritePid4(p)
    \/ WriteLease4
    \/ \E h \in SysHostnames : SetSystemHostname(h)

Next6 ==
    \/ \E o \in Options6 : set_dhcpv6_options(o)
    \/ \E f \in Faults : _set_dhcpv6(f)
    \/ \E f \in Faults : _del_dhcpv6(f)
    \/ \E p \in Pids : WritePid6(p)
    \/ WriteLease6

\* The caller drives the client of one IP version on the interface, the one
\* Init chooses: the two life cycles share no state.
Next == Next4 \/ Next6

Spec == Init /\ [][Next]_vars

----------------------------------------------------------------------------
(* The two versions together: the caller runs both clients on the interface, *)
(* turning from one to the other between calls, with working collaborators  *)

\* the caller turns to the client of the other IP version
SwitchVersion ==
    /\ version' = IF version = 4 THEN 6 ELSE 4
    /\ UNCHANGED <<vars4, vars6, etc_hostname, last>>

\* the option bags the caller of both versions stores
JointOptions4 == { o \in Options4 : o.hostname # <<>> /\ o.client_id # <<>> }
JointOptions6 == { o \in Options6 : o.dhcpv6_prm_only /\ ~o.dhcpv6_temporary }

InitJoint == Init /\ etc_hostname = <<"g", "w", NL>> /\ version = 4

NextJoint ==
    \/ \E o \in JointOptions4 : set_dhcp_options(o)
    \/ (Cardinality(Live(dhclient4)) < MaxJointProcs /\ _set_dhcp("none"))
    \/ _del_dhcp("none")
    \/ \E p \in Pids : WritePid4(p)
    \/ WriteLease4
    \/ \E o \in JointOptions6 : set_dhcpv6_options(o)
    \/ (Cardinality(Live(dhclient6)) < MaxJointProcs /\ _set_dhcpv6("none"))
    \/ _del_dhcpv6("none")
    \/ \E p \in Pids : WritePid6(p)
    \/ WriteLease6
    \/ SwitchVersion

SpecJoint == InitJoint /\ [][NextJoint]_vars

----------------------------------------------------------------------------
(* Construction: the objects of several interfaces, none of them started *)

InitPaths ==
    /\ options4 = DefaultOptions4
    /\ options6 = DefaultOptions6
    /\ conf4 = NoFile /\ pid4 = 0 /\ lease4 = FALSE
    /\ conf6 = NoFile /\ pid6 = 0 /\ lease6 = FALSE
    /\ accept_ra = 1
    /\ etc_hostname \in SysHostnames
    /\ dhclient4 = [p \in Pids |-> "none"]
    /\ dhclient6 = [p \in Pids |-> "none"]
    /\ \E name \in IfNames :
          last = [op |-> "__init__", result |-> _dhcp(name), effects |-> <<>>,
                  prev |-> <<"none", "none">>]
    /\ version \in {4, 6}

\* DHCP(name): the result is the object's table of file names; prev keeps the
\* table of the object constructed before it
__init__(name) ==
    /\ last' = [op |-> "__init__", result |-> _dhcp(name), effects |-> <<>>,
                prev |-> <<last.op, last.result>>]
    /\ UNCHANGED <<vars4, vars6, etc_hostname, version>>

NextPaths == \E name \in IfNames : __init__(name)

SpecPaths == InitPaths /\ [][NextPaths]_vars

----------------------------------------------------------------------------
(* Properties *)

\* the steps that are calls of start and stop, whatever fails in them
Start4 == last'.op = "_set_dhcp" /\ \E f \in Faults : _set_dhcp(f)
Stop4  == last'.op = "_del_dhcp" /\ \E f \in Faults : _del_dhcp(f)
Start6 == last'.op = "_set_dhcpv6" /\ \E f \in Faults : _set_dhcpv6(f)
Stop6  == last'.op = "_del_dhcpv6" /\ \E f \in Faults : _del_dhcpv6(f)

\* C1: a _set_dhcpv6 call made while dhcpv6_prm_only and dhcpv6_temporary are
\* both true raises, and has no side effect: the v6 config, pid and lease
\* files and accept_ra are as before, and no command is run.
C1_ExclusiveOptionsAbort ==
    [][ (options6.dhcpv6_prm_only /\ options6.dhcpv6_temporary /\ Start6)
        => /\ last'.result = "Exception"
           /\ last'.effects = <<>>
           /\ UNCHANGED <<conf6, pid6, lease6, accept_ra, dhclient6>> ]_vars

\* C1 happens: the call raised over a config file an earlier start had written
C1_Witness ==
    /\ last.op = "_set_dhcpv6" /\ last.result = "Exception"
    /\ options6.dhcpv6_prm_only /\ options6.dhcpv6_temporary
    /\ conf6.exists /\ accept_ra = 0

\* C2: for both versions a stop made while the pid file of that version does
\* not exist returns normally, runs no command, deletes no file and (v6)
\* does not write accept_ra.
C2_StopWithoutPidfile ==
    [][ /\ (pid4 = 0 /\ Stop4)
           => /\ last'.result = "ok" /\ last'.effects = <<>>
              /\ UNCHANGED <<conf4, pid4, lease4, dhclient4>>
        /\ (pid6 = 0 /\ Stop6)
           => /\ last'.result = "ok" /\ last'.effects = <<>>
              /\ UNCHANGED <<conf6, pid6, lease6, dhclient6, accept_ra>> ]_vars

\* C2 happens: a stop found no pid file although the config file was there
\* and a client had been launched
C2_Witness ==
    /\ last.op = "_del_dhcpv6" /\ last.result = "ok" /\ last.effects = <<>>
    /\ pid6 = 0 /\ conf6.exists /\ Live(dhclient6) # {}

\* none of configPath, pidPath, leasePath of the version is on the filesystem
NoFiles4 == ~conf4.exists /\ pid4 = 0 /\ ~lease4
NoFiles6 == ~conf6.exists /\ pid6 = 0 /\ ~lease6

RanWith(call, token) ==
    \E i \in 1..Len(call.effects) :
        call.effects[i][1] = "cmd" /\ HasToken(call.effects[i][2], token)

\* C4: a v6 stop made while the pid file names a running client runs
\* start-stop-daemon in stop mode, and when it returns that client is no
\* longer running.
C4_Stop6TerminatesClient ==
    [][ (PidfileRunning(dhclient6, pid6) /\ Stop6 /\ last'.result = "ok")
        => /\ RanWith(last', "--stop")
           /\ dhclient6'[pid6] = "none" ]_vars

\* nothing a v4 start reads besides the stored options has changed since the
\* options were last filled in: the system hostname, if the start still
\* reads it, is what the stored option already holds
SameSystemHostname == Hostname(options4, etc_hostname) = options4.hostname

C6_AtMostOneClient ==
    /\ Cardinality(Live(dhclient4)) <= 1
    /\ Cardinality(Live(dhclient6)) <= 1

\* C7: while a DHCPv6 client process that _set_dhcpv6 launched is running,
\* accept_ra of the interface is 0.
C7_NoRaWhileClient6Runs == Live(dhclient6) # {} => accept_ra = 0

IsStripped(s, e) ==
    \E k \in 0..Len(s) :
        /\ e = SubSeq(s, 1, k)
        /\ \A i \in (k + 1)..Len(s) : s[i] = "\n"
        /\ k = 0 \/ s[k] # "\n"

HasLine(text, line) == \E i \in 1..Len(text) : text[i] = line

\* the number of lines of the text that start with the fixed text
Count(text, fixed) == Cardinality({ i \in 1..Len(text) : text[i][1] = fixed })

\* the call read the file
ReadFile(call, path) ==
    \E i \in 1..Len(call.effects) :
        call.effects[i][1] = "read" /\ call.effects[i][2] = path

\* C9: a v4 start made with an empty hostname option that returns normally
\* has read /etc/hostname, has stored its content without the trailing
\* newlines as the hostname option (the other options kept) and has rendered
\* that value in the one send host-name line; a v4 start made with a
\* non-empty hostname option does not read /etc/hostname and leaves the
\* stored options unchanged.
C9_HostnameFromSystem ==
    [][ Start4 =>
        /\ (options4.hostname = <<>> /\ last'.result = "ok")
           => /\ ReadFile(last', <<"/etc/hostname">>)
              /\ IsStripped(etc_hostname, options4'.hostname)
              /\ options4' = [options4 EXCEPT !.hostname = options4'.hostname]
              /\ HasLine(conf4'.text, <<"send host-name", options4'.hostname>>)
              /\ Count(conf4'.text, "send host-name") = 1
        /\ options4.hostname # <<>>
           => /\ ~ReadFile(last', <<"/etc/hostname">>)
              /\ options4' = options4
              /\ last'.result = "ok"
                 => /\ HasLine(conf4'.text, <<"send host-name", options4.hostname>>)
                    /\ Count(conf4'.text, "send host-name") = 1 ]_vars

\* C9 happens: a start has filled the empty hostname option from a hostname
\* file that ends in two newlines and holds another one inside
C9_Witness ==
    /\ last.op = "_set_dhcp" /\ last.result = "ok"
    /\ ReadFile(last, <<"/etc/hostname">>)
    /\ etc_hostname = <<"r", "\n", "1", "\n", "\n">>
    /\ options4.hostname = <<"r", "\n", "1">>
    /\ HasLine(conf4.text, <<"send host-name", <<"r", "\n", "1">> >>)

\* the last call was a v4 start that wrote the whole config file
WroteConf4 == last.op = "_set_dhcp" /\ last.result \in {"ok", "ProcessError"}

\* C10: the config file a v4 start has written holds the send
\* dhcp-client-identifier line, once and with exactly the client_id value, if
\* client_id is not empty and does not hold it otherwise; the same for send
\* vendor-class-identifier and vendor_class_id; and it holds the send
\* host-name, request and require lines whatever the options.
C10_OptionalLines ==
    WroteConf4 =>
        LET t == conf4.text IN
        /\ Count(t, "send dhcp-client-identifier")
              = (IF options4.client_id # <<>> THEN 1 ELSE 0)
        /\ options4.client_id # <<>>
              => HasLine(t, <<"send dhcp-client-identifier", options4.client_id>>)
        /\ Count(t, "send vendor-class-identifier")
              = (IF options4.vendor_class_id # <<>> THEN 1 ELSE 0)
        /\ options4.vendor_class_id # <<>>
              => HasLine(t, <<"send vendor-class-identifier", options4.vendor_class_id>>)
        /\ HasLine(t, <<"send host-name", options4.hostname>>)
        /\ HasLine(t, <<"request subnet-mask, broadcast-address, routers, domain-name-servers, rfc3442-classless-static-routes, domain-name, interface-mtu;">>)
        /\ HasLine(t, <<"require subnet-mask;">>)

\* C10 happens: a config file written with a client id and without a vendor
\* class id
C10_Witness ==
    /\ WroteConf4
    /\ options4.client_id = <<"a", "b", "c">>
    /\ options4.vendor_class_id = <<>>
    /\ HasLine(conf4.text, <<"send dhcp-client-identifier", <<"a", "b", "c">> >>)
    /\ Count(conf4.text, "send vendor-class-identifier") = 0

\* the command lines the call ran, in order
Commands(call) ==
    LET F[i \in 0..Len(call.effects)] ==
            IF i = 0 THEN <<>>
            ELSE F[i - 1] \o (IF call.effects[i][1] = "cmd"
                              THEN <<call.effects[i][2]>> ELSE <<>>)
    IN  F[Len(call.effects)]

\* C11: every v6 start that reaches the launch step makes one invocation, and
\* its arguments hold -S if and only if dhcpv6_prm_only is true and -T if and
\* only if dhcpv6_temporary is true; no launch carries both -S and -T.
C11_LaunchFlags ==
    [][ (Start6 /\ Commands(last') # <<>>)
        => /\ Len(Commands(last')) = 1
           /\ HasToken(Commands(last')[1], "-6")
           /\ HasToken(Commands(last')[1], "-S") <=> options6.dhcpv6_prm_only
           /\ HasToken(Commands(last')[1], "-T") <=> options6.dhcpv6_temporary
           /\ ~(HasToken(Commands(last')[1], "-S") /\ HasToken(Commands(last')[1], "-T")) ]_vars

\* C11 happens: a client was launched for parameters only, with -S and
\* without -T
C11_Witness ==
    /\ last.op = "_set_dhcpv6" /\ last.result = "ok"
    /\ options6.dhcpv6_prm_only /\ ~options6.dhcpv6_temporary
    /\ Live(dhclient6) # {}
    /\ RanWith(last, "-S") /\ ~RanWith(last, "-T")

Kinds == {"conf", "pid", "lease"}

\* C12: the config, pid and lease paths of an object are determined by its
\* interface name and the IP version, and the paths of any two objects are
\* pairwise distinct over (interface, version, kind): equal paths only for
\* the same interface, the same version and the same kind.
C12_PathsDistinct ==
    (last.op = "__init__" /\ last.prev[1] = "__init__") =>
        LET a == last.prev[2]
            b == last.result
        IN  \A v1 \in {4, 6}, v2 \in {4, 6}, k1 \in Kinds, k2 \in Kinds :
                (a[v1][k1] = b[v2][k2])
                    <=> (a[v1].ifname = b[v2].ifname /\ v1 = v2 /\ k1 = k2)

\* C12 happens: the objects of eth0 and of eth0.v6 exist, and the v6 config
\* path of the one is not the v4 config path of the other
C12_Witness ==
    /\ last.op = "__init__" /\ last.prev[1] = "__init__"
    /\ last.prev[2][6].ifname = <<"e", "t", "h", "0">>
    /\ last.result[4].ifname = <<"e", "t", "h", "0", ".", "v", "6">>
    /\ last.prev[2][6].conf
         = <<"/var/lib/dhcp/dhclient_", "e", "t", "h", "0", ".", "v", "6", "c", "o", "n", "f">>
    /\ last.result[4].conf
         = <<"/var/lib/dhcp/dhclient_", "e", "t", "h", "0", ".", "v", "6", ".", "c", "o", "n", "f">>

\* the v4 config text is the rendering of the bag: its interface line, its
\* optional lines, its host-name line when the bag names a host, no other
\* optional line
RenderedFrom4(t, bag) ==
    /\ HasLine(t, <<"interface", bag.intf>>)
    /\ Count(t, "send dhcp-client-identifier") = (IF bag.client_id # <<>> THEN 1 ELSE 0)
    /\ bag.client_id # <<>> => HasLine(t, <<"send dhcp-client-identifier", bag.client_id>>)
    /\ Count(t, "send vendor-class-identifier") = (IF bag.vendor_class_id # <<>> THEN 1 ELSE 0)
    /\ bag.vendor_class_id # <<>>
          => HasLine(t, <<"send vendor-class-identifier", bag.vendor_class_id>>)
    /\ Count(t, "send host-name") = 1
    /\ bag.hostname # <<>> => HasLine(t, <<"send host-name", bag.hostname>>)
    /\ Len(t) = 9 + Count(t, "send dhcp-client-identifier")
                   + Count(t, "send vendor-class-identifier")

\* C13: a setOptions call stores exactly the bag it is given; nothing but a
\* setOptions call changes the stored bag afterwards, except that a v4 start
\* fills in an empty hostname; and a start that writes its config file
\* renders it from the stored bag, and (v6) takes its launch flags from it.
C13_LatestOptionsApplied ==
    [][ /\ \A o \in Options4 : set_dhcp_options(o) => options4' = o
        /\ \A o \in Options6 : set_dhcpv6_options(o) => options6' = o
        /\ options4' # options4
              => \/ \E o \in Options4 : set_dhcp_options(o)
                 \/ /\ Start4 /\ options4.hostname = <<>>
                    /\ options4' = [options4 EXCEPT !.hostname = options4'.hostname]
        /\ options6' # options6 => \E o \in Options6 : set_dhcpv6_options(o)
        /\ (Start4 /\ last'.result \in {"ok", "ProcessError"})
              => /\ conf4'.exists
                 /\ RenderedFrom4(conf4'.text, options4)
        /\ (Start6 /\ last'.result \in {"ok", "ProcessError"})
              => /\ conf6'.exists
                 /\ HasLine(conf6'.text, <<"interface", options6.intf>>)
                 /\ RanWith(last', "-S") <=> options6.dhcpv6_prm_only
                 /\ RanWith(last', "-T") <=> options6.dhcpv6_temporary ]_vars

\* C13 happens: a start made right after a setOptions call has written the
\* config of the bag just stored, vendor class id and no client id, over
\* whatever was stored before
C13_Witness ==
    /\ last.op = "_set_dhcp" /\ last.result = "ok"
    /\ last.prev = <<"set_dhcp_options", "ok">>
    /\ options4.client_id = <<>> /\ options4.vendor_class_id = <<"v", "c">>
    /\ options4.hostname = <<"h", "1">>
    /\ HasLine(conf4.text, <<"send vendor-class-identifier", <<"v", "c">> >>)
    /\ HasLine(conf4.text, <<"send host-name", <<"h", "1">> >>)
    /\ Count(conf4.text, "send dhcp-client-identifier") = 0
    /\ Live(dhclient4) # {}

\* C14: for both versions, when a stop returns normally no client process of
\* that version is running on the interface, whether or not the pid file was
\* there when the stop was called.
C14_StopLeavesNoClient ==
    [][ /\ (Stop4 /\ last'.result = "ok") => Live(dhclient4') = {}
        /\ (Stop6 /\ last'.result = "ok") => Live(dhclient6') = {} ]_vars

\* every command line the call ran came after its side effect e
Precedes(call, e) ==
    \A j \in 1..Len(call.effects) :
        call.effects[j][1] = "cmd" => \E i \in 1..(j - 1) : call.effects[i] = e

\* C15: a start makes its launch invocation only after it has written the
\* config file, whose content is then the rendered text and nothing else; a
\* start whose config write fails makes no launch invocation and launches no
\* client; a v6 start writes 0 to accept_ra before its launch invocation.
C15_ConfigBeforeLaunch ==
    [][ /\ Start4
           => /\ Precedes(last', <<"write", Path(4, "conf")>>)
              /\ Commands(last') # <<>>
                    => conf4'.exists /\ RenderedFrom4(conf4'.text, options4')
              /\ last'.result = "IOError"
                    => Commands(last') = <<>> /\ UNCHANGED dhclient4
        /\ Start6
           => /\ Precedes(last', <<"write", Path(6, "conf")>>)
              /\ Precedes(last', <<"sysfs", accept_ra_path, 0>>)
              /\ Commands(last') # <<>>
                    => /\ conf6'.exists /\ Len(conf6'.text) = 4
                       /\ HasLine(conf6'.text, <<"interface", options6.intf>>)
                       /\ accept_ra' = 0
              /\ last'.result = "IOError"
                    => Commands(last') = <<>> /\ UNCHANGED dhclient6 ]_vars

\* C15 happens: a v6 start has written the config file, then accept_ra, then
\* launched the client
C15_Witness ==
    /\ last.op = "_set_dhcpv6" /\ last.result = "ok"
    /\ Len(last.effects) = 3
    /\ last.effects[1] = <<"write", Path(6, "conf")>>
    /\ last.effects[2] = <<"sysfs", accept_ra_path, 0>>
    /\ last.effects[3][1] = "cmd"
    /\ conf6.exists /\ accept_ra = 0 /\ Live(dhclient6) # {}

\* the argument that follows the flag on the command line (<<>> if none)
Arg(cmd, flag) ==
    IF \E i \in 1..(Len(cmd) - 1) : cmd[i] = flag
    THEN cmd[(CHOOSE i \in 1..(Len(cmd) - 1) : cmd[i] = flag) + 1]
    ELSE <<>>

\* the call removed a file
Removed(call) == \E i \in 1..Len(call.effects) : call.effects[i][1] = "remove"

\* C16: a v4 stop that finds the pid file makes one invocation, dhclient in
\* release mode with the config, pid and lease paths start launched the
\* client with, and removes files only after it; when that invocation fails
\* the stop fails and the three files are left as they were.
C16_ReleaseBeforeCleanup ==
    [][ /\ (pid4 # 0 /\ Stop4)
           => /\ Len(Commands(last')) = 1
              /\ last'.effects[1][1] = "cmd"
              /\ LET cmd == Commands(last')[1] IN
                   /\ cmd[1] = "/sbin/dhclient" /\ HasToken(cmd, "-r")
                   /\ Arg(cmd, "-cf") = <<"/var/lib/dhcp/dhclient_", "e", "t", "h", "0",
                                          ".", "c", "o", "n", "f">>
                   /\ \A flag \in {"-cf", "-pf", "-lf"} :
                         Arg(cmd, flag) # <<>> /\ Arg(cmd, flag) = Arg(StartCmd4, flag)
              /\ last'.result # "ok"
                    => ~Removed(last') /\ UNCHANGED <<conf4, pid4, lease4>>
        /\ _del_dhcp("cmd")
           => /\ last'.result = "ProcessError"
              /\ ~Removed(last') /\ UNCHANGED <<conf4, pid4, lease4>> ]_vars

\* C16 happens: the release invocation of a stop has failed, and the config,
\* pid and lease files of the running client are still there
C16_Witness ==
    /\ last.op = "_del_dhcp" /\ last.result = "ProcessError"
    /\ Len(last.effects) = 1 /\ RanWith(last, "-r")
    /\ conf4.exists /\ pid4 # 0 /\ lease4
    /\ PidfileRunning(dhclient4, pid4)

\* C17: for both versions a stop that finds the pid file, and whose command
\* works, returns normally and leaves none of configPath, pidPath, leasePath,
\* whichever of the config file and the lease file were missing when it was
\* called.
C17_StopToleratesMissingFiles ==
    [][ /\ (pid4 # 0 /\ _del_dhcp("none")) => (last'.result = "ok" /\ NoFiles4')
        /\ (pid6 # 0 /\ _del_dhcpv6("none")) => (last'.result = "ok" /\ NoFiles6') ]_vars

\* C17 happens: a stop has found the pid file and neither the config file nor
\* the lease file: it ran its command, removed the pid file alone, and
\* returned normally
C17_Witness ==
    /\ last.op = "_del_dhcp" /\ last.result = "ok"
    /\ Len(last.effects) = 2
    /\ last.effects[1][1] = "cmd"
    /\ last.effects[2] = <<"remove", Path(4, "pid")>>
    /\ NoFiles4

\* the last two calls were a start that failed and then a stop that returned
FailedStartThenStop4 ==
    /\ last.op = "_del_dhcp" /\ last.result = "ok"
    /\ last.prev[1] = "_set_dhcp" /\ last.prev[2] # "ok"

FailedStartThenStop6 ==
    /\ last.op = "_del_dhcpv6" /\ last.result = "ok"
    /\ last.prev[1] = "_set_dhcpv6" /\ last.prev[2] # "ok"

\* C18: after a start that failed (config error, config write failure or
\* launch failure) and a stop, a start made with valid options and working
\* collaborators returns normally, with exactly one client process of the
\* version running and the config file holding the rendered text.
C18_RecoveryAfterFailedStart ==
    [][ /\ (FailedStartThenStop4 /\ _set_dhcp("none"))
           => /\ last'.result = "ok"
              /\ Cardinality(Live(dhclient4')) = 1
              /\ conf4'.exists /\ RenderedFrom4(conf4'.text, options4')
        /\ (FailedStartThenStop6 /\ ~MutuallyExclusive(options6) /\ _set_dhcpv6("none"))
           => /\ last'.result = "ok"
              /\ Cardinality(Live(dhclient6')) = 1
              /\ conf6'.exists /\ HasLine(conf6'.text, <<"interface", options6.intf>>) ]_vars

\* the files of eth0 each version may touch
Files4 ==
    { <<"/var/lib/dhcp/dhclient_", "e", "t", "h", "0", ".", "c", "o", "n", "f">>,
      <<"/var/lib/dhcp/dhclient_", "e", "t", "h", "0", ".", "p", "i", "d">>,
      <<"/var/lib/dhcp/dhclient_", "e", "t", "h", "0", ".", "l", "e", "a", "s", "e", "s">>,
      <<"/etc/hostname">> }

Files6 ==
    { <<"/var/lib/dhcp/dhclient_", "e", "t", "h", "0", ".", "v", "6", "c", "o", "n", "f">>,
      <<"/var/lib/dhcp/dhclient_", "e", "t", "h", "0", ".", "v", "6", "p", "i", "d">>,
      <<"/var/lib/dhcp/dhclient_", "e", "t", "h", "0", ".", "v", "6", "l", "e", "a", "s", "e", "s">>,
      <<"/proc/sys/net/ipv6/conf/", "e", "t", "h", "0", "/accept_ra">> }

\* the files the call read, wrote or removed, and the files it named on the
\* command lines it ran
PathsOf(call) ==
    UNION { IF call.effects[i][1] = "cmd"
            THEN { Arg(call.effects[i][2], flag) :
                     flag \in {"-cf", "-pf", "-lf", "--pidfile"} } \ { <<>> }
            ELSE { call.effects[i][2] } : i \in 1..Len(call.effects) }

\* C19: a v4 start, stop or setOptions leaves the v6 options, the v6 config,
\* pid and lease files, the v6 processes and accept_ra unchanged and names no
\* file but the v4 ones; a v6 start, stop or setOptions leaves the v4
\* options, files and processes unchanged and names no file but the v6 ones.
C19_VersionsIndependent ==
    [][ /\ (Start4 \/ Stop4 \/ \E o \in Options4 : set_dhcp_options(o))
           => /\ UNCHANGED <<options6, conf6, pid6, lease6, dhclient6, accept_ra>>
              /\ PathsOf(last') \subseteq Files4
        /\ (Start6 \/ Stop6 \/ \E o \in Options6 : set_dhcpv6_options(o))
           => /\ UNCHANGED <<options4, conf4, pid4, lease4, dhclient4>>
              /\ PathsOf(last') \subseteq Files6 ]_vars

\* C19 happens: a v4 stop has released its client and removed its three
\* files while the v6 client runs with its options, files and accept_ra 0
C19_Witness ==
    /\ last.op = "_del_dhcp" /\ last.result = "ok" /\ Len(last.effects) = 4
    /\ NoFiles4 /\ Live(dhclient4) = {}
    /\ options6.dhcpv6_prm_only
    /\ conf6.exists /\ pid6 # 0 /\ lease6 /\ PidfileRunning(dhclient6, pid6)
    /\ accept_ra = 0

\* the start neither reads the system hostname nor changes the stored
\* options, and the config file it writes holds the stored hostname
UsesStoredHostname ==
    /\ ~ReadFile(last', <<"/etc/hostname">>)
    /\ options4' = options4
    /\ last'.result \in {"ok", "ProcessError"}
          => /\ HasLine(conf4'.text, <<"send host-name", options4.hostname>>)
             /\ Count(conf4'.text, "send host-name") = 1

\* C20 as stated: a v4 start made after a v4 start that has read the system
\* hostname into the empty hostname option, with no setOptions call in
\* between, does not read the system hostname and renders the stored value,
\* whatever the system hostname is by then.
C20_HostnameRemembered ==
    [][ (last.op = "_set_dhcp" /\ ReadFile(last, <<"/etc/hostname">>) /\ Start4)
        => UsesStoredHostname ]_vars

\* the stored hostname is one no setOptions call of the model stores: a
\* start has read it from the system
FromSystem == options4.hostname \notin HostnameOpts

\* C20 (amended): the same when the system hostname the earlier start read
\* was not empty once stripped; this for the start that follows it and for
\* every later start made before the next setOptions call.
C20_NonEmptyHostnameRemembered ==
    [][ /\ (last.op = "_set_dhcp" /\ ReadFile(last, <<"/etc/hostname">>)
            /\ options4.hostname # <<>> /\ Start4)
           => UsesStoredHostname
        /\ (FromSystem /\ Start4) => UsesStoredHostname ]_vars

\* C20 happens: a start has rendered the hostname gw an earlier start had
\* read, without reading the system hostname, which is another by now
C20_Witness ==
    /\ last.op = "_set_dhcp" /\ last.result = "ok"
    /\ last.prev[1] = "_set_dhcp"
    /\ ~ReadFile(last, <<"/etc/hostname">>)
    /\ options4.hostname = <<"g", "w">>
    /\ etc_hostname = <<"r", "\n", "1", "\n", "\n">>
    /\ HasLine(conf4.text, <<"send host-name", <<"g", "w">> >>)

====
